---- MODULE Spec2Model ----
(***************************************************************************)
(* Model of app.py, the Streamlit front end of pySigmaP: unit conversion   *)
(* of the uploaded table, the legend sanitizer, the display-unit rewrite   *)
(* of rendered figures and the dispatch to the pysigmap collaborators.     *)
(*                                                                         *)
(* Text is a sequence of one-character strings, so that the regular        *)
(* expressions and str.replace calls of the source are modelled by what    *)
(* they do to the characters.  Floating-point magnitudes are fixed-point:  *)
(* a stress in kPa is an integer number of thousandths of a kPa, and a     *)
(* displayed value is an exact fraction <<n, d>>.                          *)
(***************************************************************************)
EXTENDS Integers, Sequences, FiniteSets, TLC

VARIABLES
    uploaded,       \* the file in the uploader (present = FALSE: None)
    csv_unit,       \* selectbox: unit of the stress column
    sv_unit,        \* selectbox: unit of the in-situ stress input
    display_unit,   \* selectbox: unit the results are displayed in
    sigmaV_input,   \* number_input: in-situ effective vertical stress
    method_name,    \* selectbox: estimation method
    env,            \* behaviour of the pysigmap collaborators in this run
    df,             \* the parsed table as it is after the script run: <<>> or <<table>>
    dfk,            \* run_analysis's working copy: <<>> until run_analysis is entered
    calls,          \* collaborator calls made by the last script run, in order
    out,            \* elements the last script run emitted to the page, in order
    prev_calls,     \* <<calls of the run before>> after a display-unit change, else <<>>
    fig,            \* a rendered figure handed to the legend/display passes
    fig0,           \* that figure before the last pass over it
    op,             \* the last pass over fig: <<name, unit>>
    passes          \* how many passes fig has received

vars == <<uploaded, csv_unit, sv_unit, display_unit, sigmaV_input, method_name,
          env, df, dfk, calls, out, prev_calls, fig, fig0, op, passes>>

workflowVars == <<uploaded, csv_unit, sv_unit, display_unit, sigmaV_input,
                  method_name, env, df, dfk, calls, out, prev_calls>>

figVars == <<fig, fig0, op, passes>>

----------------------------------------------------------------------------
(* Units                                                                   *)

UNITS == <<"kPa", "MPa", "kN/m^2", "Pa", "psi", "psf", "ksf", "tsf", "bar", "kgf/cm^2">>

\* Fixed-point scale: magnitudes in kPa are counted in 1/Scale kPa, the
\* smallest factor of TO_KPA (Pa = 0.001).
Scale == 1000

\* TO_KPA[u] * Scale, each factor rounded to the nearest thousandth.
TO_KPA ==
    [u \in {UNITS[i] : i \in 1..Len(UNITS)} |->
        CASE u = "kPa"      -> 1000
          [] u = "MPa"      -> 1000000
          [] u = "kN/m^2"   -> 1000
          [] u = "Pa"       -> 1
          [] u = "bar"      -> 100000
          [] u = "psi"      -> 6895
          [] u = "psf"      -> 48
          [] u = "ksf"      -> 47880
          [] u = "tsf"      -> 95761
          [] u = "kgf/cm^2" -> 98067]

\* The characters of a unit symbol, as it is written into labels.
UnitText(u) ==
    CASE u = "kPa"      -> <<"k", "P", "a">>
      [] u = "MPa"      -> <<"M", "P", "a">>
      [] u = "kN/m^2"   -> <<"k", "N", "/", "m", "^", "2">>
      [] u = "Pa"       -> <<"P", "a">>
      [] u = "bar"      -> <<"b", "a", "r">>
      [] u = "psi"      -> <<"p", "s", "i">>
      [] u = "psf"      -> <<"p", "s", "f">>
      [] u = "ksf"      -> <<"k", "s", "f">>
      [] u = "tsf"      -> <<"t", "s", "f">>
      [] u = "kgf/cm^2" -> <<"k", "g", "f", "/", "c", "m", "^", "2">>

\* A table cell as pandas reads it: a finite number, NaN, +inf, or text that
\* is no number.
Num(n) == [kind |-> "float", v |-> n]
NaN == [kind |-> "nan", v |-> 0]
Inf == [kind |-> "inf", v |-> 0]
Str == [kind |-> "str", v |-> 0]

IsFinite(c) == c.kind = "float"

\* float(x) * TO_KPA[unit], in 1/Scale kPa.
to_kpa(x, unit) == x * TO_KPA[unit]

\* s.astype(float) raises ValueError on a cell that is not a number.
AstypeRaises(s) == \E i \in 1..Len(s) : s[i].kind = "str"

\* s.astype(float) * TO_KPA[unit], elementwise, in 1/Scale kPa.  The factors
\* are positive, so NaN stays NaN and +inf stays +inf; nothing is raised.
series_to_kpa(s, unit) ==
    [i \in 1..Len(s) |->
        IF IsFinite(s[i]) THEN Num(s[i].v * TO_KPA[unit]) ELSE s[i]]

\* float(x_kpa) / TO_KPA[unit] as the fraction <<n, d>>; x_kpa in 1/Scale kPa.
from_kpa(x_kpa, unit) == <<x_kpa, TO_KPA[unit]>>

----------------------------------------------------------------------------
(* Text primitives                                                         *)

Digits == <<"0", "1", "2", "3", "4", "5", "6", "7", "8", "9">>

IsDigit(c) == \E i \in 1..10 : Digits[i] = c

DigitVal(c) == (CHOOSE i \in 1..10 : Digits[i] = c) - 1

IsSpace(c) == c \in {" ", "\t", "\n"}

\* s[i..] starts with t
StartsAt(s, t, i) ==
    /\ i + Len(t) - 1 =< Len(s)
    /\ \A k \in 1..Len(t) : s[i + k - 1] = t[k]

\* t in s
Contains(s, t) == \E i \in 1..(Len(s) + 1) : StartsAt(s, t, i)

RECURSIVE ReplaceFrom(_, _, _, _)
\* str.replace(old, new) from position i on: leftmost, non-overlapping.
ReplaceFrom(s, old, new, i) ==
    IF i > Len(s) THEN <<>>
    ELSE IF StartsAt(s, old, i)
         THEN new \o ReplaceFrom(s, old, new, i + Len(old))
         ELSE <<s[i]>> \o ReplaceFrom(s, old, new, i + 1)

Replace(s, old, new) == ReplaceFrom(s, old, new, 1)

\* s.strip() != ""
NonBlank(s) == \E i \in 1..Len(s) : ~IsSpace(s[i])

RECURSIVE Pow10(_)
Pow10(k) == IF k = 0 THEN 1 ELSE 10 * Pow10(k - 1)

RECURSIVE IntText(_)
\* The decimal digits of a natural number.
IntText(n) == IF n < 10 THEN <<Digits[n + 1]>> ELSE IntText(n \div 10) \o <<Digits[(n % 10) + 1]>>

RECURSIVE GCD(_, _)
GCD(a, b) == IF b = 0 THEN a ELSE GCD(b, a % b)

\* n/d rounded to the nearest integer, ties to even (the rounding of the
\* format specifiers on an exactly represented value).
RoundDiv(n, d) ==
    LET q == n \div d
        r == n % d
    IN  IF 2 * r > d THEN q + 1
        ELSE IF 2 * r = d THEN q + (q % 2)
        ELSE q

----------------------------------------------------------------------------
(* Number formatting                                                       *)

RECURSIVE Exp10(_, _)
\* floor(log10(n/d)) for n/d > 0.
Exp10(n, d) ==
    IF n >= 10 * d THEN 1 + Exp10(n, 10 * d)
    ELSE IF n < d THEN Exp10(10 * n, d) - 1
    ELSE 0

RECURSIVE StripZeros(_)
\* Trailing zeros of a fractional part removed.
StripZeros(t) ==
    IF t # <<>> /\ t[Len(t)] = "0" THEN StripZeros(SubSeq(t, 1, Len(t) - 1)) ELSE t

\* An integer part and a fractional part joined; no point when the fraction is empty.
JoinFrac(ip, fp) == IF fp = <<>> THEN ip ELSE ip \o <<".">> \o fp

Zeros(k) == [i \in 1..k |-> "0"]

\* f"{y:.0f}" for y = n/d >= 0
FormatF0(n, d) == IntText(RoundDiv(n, d))

\* f"{y:.1f}" for y = n/d >= 0
FormatF1(n, d) ==
    LET r == RoundDiv(10 * n, d)
    IN  IntText(r \div 10) \o <<".">> \o IntText(r % 10)

\* f"{y:.Pg}" for y = n/d >= 0 (n/d in lowest terms): P significant digits,
\* fixed notation when the decimal exponent X has -4 <= X < P and scientific
\* otherwise, trailing zeros and a trailing point removed.
FormatG(n, d, P) ==
    IF n = 0 THEN <<"0">>
    ELSE
    LET e  == Exp10(n, d)
        m0 == IF e =< P - 1 THEN RoundDiv(n * Pow10(P - 1 - e), d)
                            ELSE RoundDiv(n, d * Pow10(e - P + 1))
        up == m0 = Pow10(P)
        m  == IF up THEN Pow10(P - 1) ELSE m0
        X  == IF up THEN e + 1 ELSE e
        ds == IntText(m)
        ax == IF X < 0 THEN 0 - X ELSE X
    IN  IF X >= -4 /\ X < P
        THEN IF X >= 0
             THEN JoinFrac(SubSeq(ds, 1, X + 1), StripZeros(SubSeq(ds, X + 2, P)))
             ELSE JoinFrac(<<"0">>, StripZeros(Zeros(ax - 1) \o ds))
        ELSE JoinFrac(<<ds[1]>>, StripZeros(SubSeq(ds, 2, P)))
             \o <<"e", IF X < 0 THEN "-" ELSE "+">>
             \o (IF ax < 10 THEN <<"0">> ELSE <<>>) \o IntText(ax)

\* n/d in lowest terms
Reduce(n, d) == LET g == GCD(n, d) IN <<n \div g, d \div g>>

----------------------------------------------------------------------------
(* Legend TeX sanitizer                                                    *)

BS == "\\"

TEXTBF == <<BS, "t", "e", "x", "t", "b", "f", "{">>
MATHBF == <<BS, "m", "a", "t", "h", "b", "f", "{">>

\* Index of the first "}" at or after i, 0 when there is none.
FirstClose(s, i) ==
    IF \E j \in i..Len(s) : s[j] = "}"
    THEN CHOOSE j \in i..Len(s) : s[j] = "}" /\ \A k \in i..(j - 1) : s[k] # "}"
    ELSE 0

RECURSIVE UnwrapFrom(_, _, _)
\* re.sub(r'\\macro\{([^}]*)\}', r'\1', s) from position i on: at the leftmost
\* opener the group runs to the first "}", the wrapper is dropped and the scan
\* goes on after that "}"; an opener with no "}" after it matches nothing.
UnwrapFrom(s, opener, i) ==
    IF i > Len(s) THEN <<>>
    ELSE IF StartsAt(s, opener, i)
         THEN LET j == FirstClose(s, i + Len(opener))
              IN  IF j = 0 THEN SubSeq(s, i, Len(s))
                  ELSE SubSeq(s, i + Len(opener), j - 1) \o UnwrapFrom(s, opener, j + 1)
         ELSE <<s[i]>> \o UnwrapFrom(s, opener, i + 1)

_strip_tex_macros(s) ==
    LET s1 == UnwrapFrom(s, TEXTBF, 1)
        s2 == UnwrapFrom(s1, MATHBF, 1)
    IN  Replace(Replace(Replace(s2, <<BS, ",">>, <<" ">>), <<BS, ";">>, <<" ">>),
                <<BS, ":">>, <<" ">>)

\* One Text artist of a legend (title or entry) after the sanitizer.
FixText(t) ==
    LET clean == _strip_tex_macros(t.text)
    IN  IF clean # t.text THEN [text |-> clean, bold |-> TRUE] ELSE t

FixLegend(leg) ==
    [title |-> FixText(leg.title),
     texts |-> [i \in 1..Len(leg.texts) |-> FixText(leg.texts[i])]]

\* A figure is a sequence of axes; an axis's legend is <<>> or <<legend>>.
fix_legend_tex(f) ==
    [a \in 1..Len(f) |->
        IF f[a].legend = <<>> THEN f[a]
        ELSE [f[a] EXCEPT !.legend = <<FixLegend(f[a].legend[1])>>]]

----------------------------------------------------------------------------
(* Display units                                                           *)

KPA == <<"k", "P", "a">>

\* Number of consecutive characters from position i on that satisfy the class.
RECURSIVE DigitRun(_, _)
DigitRun(s, i) == IF i =< Len(s) /\ IsDigit(s[i]) THEN 1 + DigitRun(s, i + 1) ELSE 0

RECURSIVE SpaceRun(_, _)
SpaceRun(s, i) == IF i =< Len(s) /\ IsSpace(s[i]) THEN 1 + SpaceRun(s, i + 1) ELSE 0

\* The match of r"([0-9]*\.?[0-9]+)\s*kPa" that starts at position i:
\* <<first index after group 1, first index after the match>>, or <<0, 0>>.
\* The classes are disjoint, so the greedy choices are the only ones that can
\* reach "kPa": digits, then either ".digits" or nothing, then spaces.
MatchAt(s, i) ==
    LET a  == DigitRun(s, i)
        p  == i + a
        b  == IF p =< Len(s) /\ s[p] = "." THEN DigitRun(s, p + 1) ELSE 0
        g  == IF b >= 1 THEN p + 1 + b ELSE p
        q  == g + SpaceRun(s, g)
    IN  IF (b >= 1 \/ a >= 1) /\ StartsAt(s, KPA, q) THEN <<g, q + 3>> ELSE <<0, 0>>

RECURSIVE DigitsValue(_)
\* The integer written by a digit string ("" is 0).
DigitsValue(t) ==
    IF t = <<>> THEN 0
    ELSE 10 * DigitsValue(SubSeq(t, 1, Len(t) - 1)) + DigitVal(t[Len(t)])

\* float(m.group(1)) as a fraction <<n, d>>, d a power of ten.
ParseFloat(t) ==
    IF \E k \in 1..Len(t) : t[k] = "."
    THEN LET k == CHOOSE k \in 1..Len(t) : t[k] = "."
         IN  <<DigitsValue(SubSeq(t, 1, k - 1) \o SubSeq(t, k + 1, Len(t))),
               Pow10(Len(t) - k)>>
    ELSE <<DigitsValue(t), 1>>

\* The tiers without the first one.
FormatTwoTiers(n, d) ==
    IF n >= 10 * d THEN FormatF1(n, d) ELSE FormatG(n, d, 3)

\* The tiers of repl: y >= 100 -> .0f, y >= 10 -> .1f, else .3g.
FormatTier(n, d) ==
    IF n >= 100 * d THEN FormatF0(n, d)
    ELSE IF n >= 10 * d THEN FormatF1(n, d)
    ELSE FormatG(n, d, 3)

\* repl(m): group 1 converted by factor = 1.0 / TO_KPA[unit], formatted,
\* followed by a space and the unit.
repl(group, unit) ==
    LET val == ParseFloat(group)
        g   == GCD(Scale, val[2])
        y   == Reduce(val[1] * (Scale \div g), (val[2] \div g) * TO_KPA[unit])
    IN  FormatTier(y[1], y[2]) \o <<" ">> \o UnitText(unit)

RECURSIVE SubKpaFrom(_, _, _)
\* re.sub(r"([0-9]*\.?[0-9]+)\s*kPa", repl, s) from position i on.
SubKpaFrom(s, unit, i) ==
    IF i > Len(s) THEN <<>>
    ELSE LET m == MatchAt(s, i)
         IN  IF m[2] # 0
             THEN repl(SubSeq(s, i, m[1] - 1), unit) \o SubKpaFrom(s, unit, m[2])
             ELSE <<s[i]>> \o SubKpaFrom(s, unit, i + 1)

\* The new text of a legend entry (lines 133-135).
LegendText(s, unit) ==
    Replace(SubKpaFrom(s, unit, 1), <<"[">> \o KPA \o <<"]">>,
            <<"[">> \o UnitText(unit) \o <<"]">>)

DefaultXLabel ==
    <<"E", "f", "f", "e", "c", "t", "i", "v", "e", " ", "v", "e", "r", "t", "i",
      "c", "a", "l", " ", "s", "t", "r", "e", "s", "s", ",", " ", "s", "i", "g",
      "m", "a", "'", "v">>

\* The new x label (lines 109-115).
XLabel(xlabel, unit) ==
    IF Contains(xlabel, KPA) THEN Replace(xlabel, KPA, UnitText(unit))
    ELSE IF NonBlank(xlabel) THEN xlabel \o <<" ", "[">> \o UnitText(unit) \o <<"]">>
    ELSE DefaultXLabel \o <<" ", "[">> \o UnitText(unit) \o <<"]">>

\* One axis after the loop body of apply_display_units.  The formatters are
\* the closures installed: fmt bound to the unit's factor, and the blank lambda.
DisplayAxis(ax, unit) ==
    [ax EXCEPT
        !.major  = <<"FuncFormatter(fmt)", unit>>,
        !.minor  = <<"FuncFormatter(blank)", "">>,
        !.xlabel = XLabel(ax.xlabel, unit),
        !.legend = IF ax.legend = <<>> THEN <<>>
                   ELSE <<[ax.legend[1] EXCEPT
                            !.texts = [i \in 1..Len(ax.legend[1].texts) |->
                                [ax.legend[1].texts[i] EXCEPT
                                    !.text = LegendText(ax.legend[1].texts[i].text, unit)]]]>>]

\* apply_display_units without the early return for kPa.
ApplyWithoutShortcut(f, unit) == [a \in 1..Len(f) |-> DisplayAxis(f[a], unit)]

apply_display_units(f, unit) ==
    IF unit = "kPa" THEN f
    ELSE [a \in 1..Len(f) |-> DisplayAxis(f[a], unit)]

----------------------------------------------------------------------------
(* Collaborators (pysigmap) as the script sees them                        *)

METHODS ==
    <<"Casagrande", "Pacheco Silva", "Boone", "Butterfield (bilog)", "Oikawa (bilog)",
      "Onitsuka et al. (bilog)", "Wang & Frost (energy)", "Becker et al. (energy)">>

\* The characters of a method identifier, for str.startswith.
MethodText(m) ==
    CASE m = "Casagrande"    -> <<"C", "a", "s", "a", "g", "r", "a", "n", "d", "e">>
      [] m = "Pacheco Silva" -> <<"P", "a", "c", "h", "e", "c", "o", " ", "S", "i", "l", "v", "a">>
      [] m = "Boone"         -> <<"B", "o", "o", "n", "e">>
      [] m = "Butterfield (bilog)" ->
            <<"B", "u", "t", "t", "e", "r", "f", "i", "e", "l", "d", " ", "(", "b", "i", "l", "o", "g", ")">>
      [] m = "Oikawa (bilog)" ->
            <<"O", "i", "k", "a", "w", "a", " ", "(", "b", "i", "l", "o", "g", ")">>
      [] m = "Onitsuka et al. (bilog)" ->
            <<"O", "n", "i", "t", "s", "u", "k", "a", " ", "e", "t", " ", "a", "l", ".", " ",
              "(", "b", "i", "l", "o", "g", ")">>
      [] m = "Wang & Frost (energy)" ->
            <<"W", "a", "n", "g", " ", "&", " ", "F", "r", "o", "s", "t", " ", "(", "e", "n",
              "e", "r", "g", "y", ")">>
      [] m = "Becker et al. (energy)" ->
            <<"B", "e", "c", "k", "e", "r", " ", "e", "t", " ", "a", "l", ".", " ", "(", "e",
              "n", "e", "r", "g", "y", ")">>

startswith(m, prefix) == StartsAt(MethodText(m), prefix, 1)

\* The chain with both "O..." methods caught by the Oikawa branch.
DispatchShortPrefix(m) ==
    IF m = "Casagrande" THEN [ctor |-> "Casagrande", kw |-> "loglog=True"]
    ELSE IF m = "Pacheco Silva" THEN [ctor |-> "PachecoSilva", kw |-> ""]
    ELSE IF m = "Boone" THEN [ctor |-> "Boone", kw |-> ""]
    ELSE IF startswith(m, <<"B", "u">>) THEN [ctor |-> "Bilog", kw |-> "opt=1"]
    ELSE IF startswith(m, <<"O">>) THEN [ctor |-> "Bilog", kw |-> "opt=2"]
    ELSE IF startswith(m, <<"O", "n">>) THEN [ctor |-> "Bilog", kw |-> "opt=3"]
    ELSE IF startswith(m, <<"W">>) THEN [ctor |-> "WangAndFrost", kw |-> ""]
    ELSE [ctor |-> "BeckerEtAl", kw |-> ""]

\* The if/elif chain of run_analysis: the model class constructed and the
\* keyword arguments of getSigmaP.
Dispatch(m) ==
    IF m = "Casagrande" THEN [ctor |-> "Casagrande", kw |-> "loglog=True"]
    ELSE IF m = "Pacheco Silva" THEN [ctor |-> "PachecoSilva", kw |-> ""]
    ELSE IF m = "Boone" THEN [ctor |-> "Boone", kw |-> ""]
    ELSE IF startswith(m, <<"B", "u", "t", "t", "e", "r", "f", "i", "e", "l", "d">>)
         THEN [ctor |-> "Bilog", kw |-> "opt=1"]
    ELSE IF startswith(m, <<"O", "i", "k", "a", "w", "a">>)
         THEN [ctor |-> "Bilog", kw |-> "opt=2"]
    ELSE IF startswith(m, <<"O", "n", "i", "t", "s", "u", "k", "a">>)
         THEN [ctor |-> "Bilog", kw |-> "opt=3"]
    ELSE IF startswith(m, <<"W", "a", "n", "g">>)
         THEN [ctor |-> "WangAndFrost", kw |-> ""]
    ELSE [ctor |-> "BeckerEtAl", kw |-> ""]

\* One collaborator call as the script makes it.
Call(fn, data, sigmaV, kw) == [fn |-> fn, data |-> data, sigmaV |-> sigmaV, kw |-> kw]

\* The figure a collaborator draws from a Data object: one axis over the
\* stress column (kPa), a legend title with a TeX spacing token, a legend
\* entry quoting a stress in kPa.
CollabFigure(table, entry) ==
    <<[major  |-> <<"ScalarFormatter", "">>,
       minor  |-> <<"ScalarFormatter", "">>,
       xlabel |-> <<"[", "k", "P", "a", "]">>,
       lines  |-> [i \in 1..Len(table.rows) |-> table.rows[i][1]],
       legend |-> <<[title |-> [text |-> <<"D", BS, ",">>, bold |-> FALSE],
                     texts |-> <<[text |-> entry, bold |-> FALSE]>>]>>]>>

\* Legend entries of data.plot() and of getSigmaP().
CurveEntry == <<"7", "5", "k", "P", "a">>
ResultEntry == <<"1", "2", "0", "k", "P", "a">>

----------------------------------------------------------------------------
(* Main workflow                                                           *)

\* An element emitted to the page.
Emit(kind, figure, text) == [kind |-> kind, figure |-> figure, text |-> text]

\* dfk.iloc[:, :3]
FirstThree(table) ==
    [ncols |-> IF table.ncols < 3 THEN table.ncols ELSE 3,
     rows  |-> [i \in 1..Len(table.rows) |->
                   SubSeq(table.rows[i], 1, IF table.ncols < 3 THEN table.ncols ELSE 3)]]

\* The assignment landing on the second column.
SetSecondColumn(table, series) ==
    [table EXCEPT !.rows = [i \in 1..Len(table.rows) |->
                               [table.rows[i] EXCEPT ![2] = series[i]]]]

\* dfk.iloc[:, 0] = series
SetStress(table, series) ==
    [table EXCEPT !.rows = [i \in 1..Len(table.rows) |->
                               [table.rows[i] EXCEPT ![1] = series[i]]]]

StressColumn(table) == [i \in 1..Len(table.rows) |-> table.rows[i][1]]

\* The caller's df after run_analysis: dfk is a copy (df.copy()), so the
\* assignment to dfk's stress column does not reach df.
DfAfter(dframe, dfk1) == dframe

\* EmittedBefore with the curve shown only together with the result.
EmittedAtEnd(step, curve, result) ==
    IF step \in {"Data", "plot", "model", "getSigmaP"} THEN <<>>
    ELSE curve \o result

\* What the page has received when the named collaborator step raises ("" for
\* none): st.pyplot(fig_curve) comes after data.plot() and before the model is
\* constructed; everything else comes after getSigmaP.
EmittedBefore(step, curve, result) ==
    IF step \in {"Data", "plot"} THEN <<>>
    ELSE IF step \in {"model", "getSigmaP"} THEN curve
    ELSE curve \o result

\* What a finished or aborted run_analysis leaves behind.
Ran(dframe, copy, cs, o, raised) ==
    [df |-> dframe, dfk |-> copy, calls |-> cs, out |-> o, raised |-> raised]

\* The curve figure as it is shown: data.plot(), then the two passes (lines 176-178).
CurveFigure(table, du) ==
    apply_display_units(fix_legend_tex(CollabFigure(table, CurveEntry)), du)

\* The result figure as it is shown: getSigmaP(), then the two passes (lines 184-208).
ResultFigure(table, du) ==
    apply_display_units(fix_legend_tex(CollabFigure(table, ResultEntry)), du)

\* st.metric(...) when the model exposes a numeric sigmaP (lines 213-223).
Metric(sigmaP, du) ==
    IF sigmaP = <<>> THEN <<>>
    ELSE <<Emit("metric", <<>>,
                FormatG(Reduce(from_kpa(sigmaP[1], du)[1], from_kpa(sigmaP[1], du)[2])[1],
                        Reduce(from_kpa(sigmaP[1], du)[1], from_kpa(sigmaP[1], du)[2])[2], 3))>>

\* Everything emitted after getSigmaP returned (lines 210-228).
ResultOutputs(figr, sigmaP, du) ==
    <<Emit("subheader", <<>>, <<"R", "e", "s", "u", "l", "t">>), Emit("pyplot", figr, <<>>)>>
    \o Metric(sigmaP, du)
    \o <<Emit("download_button", figr, <<>>)>>

\* The collaborator calls of run_analysis up to and including the step that
\* raises (all four when none does): Data(dfk.iloc[:, :3], sigmaV=sigmaV_kpa),
\* data.plot(), the model constructor on data, model.getSigmaP(...).
CallsUntil(step, table, sigmaV, d) ==
    SubSeq(<<Call("Data", <<table>>, sigmaV, ""),
             Call("plot", <<>>, 0, ""),
             Call(d.ctor, <<table>>, sigmaV, ""),
             Call("getSigmaP", <<>>, 0, d.kw)>>,
           1,
           CASE step = "Data" -> 1 [] step = "plot" -> 2 [] step = "model" -> 3 [] OTHER -> 4)

\* run_analysis from line 173 on: dfk1 is dfk after line 167, table is dfk.iloc[:, :3].
Analyse(dframe, dfk1, table, sigmaV, du, d, e) ==
    Ran(DfAfter(dframe, dfk1), <<dfk1>>,
        CallsUntil(e.fail, table, sigmaV, d),
        EmittedBefore(e.fail,
                      <<Emit("pyplot", CurveFigure(table, du), <<>>)>>,
                      ResultOutputs(ResultFigure(table, du), e.sigmaP, du)),
        e.fail # "")

\* Converted with the in-situ stress read in the display unit instead of its own.
ConvertedByDisplayUnit(dframe, dfk1, cu, su, du, sv, m, e) ==
    Analyse(dframe, dfk1, FirstThree(dfk1), to_kpa(sv, du), du, Dispatch(m), e)

\* run_analysis from line 167 on, dfk1 the converted copy.
Converted(dframe, dfk1, cu, su, du, sv, m, e) ==
    Analyse(dframe, dfk1, FirstThree(dfk1), to_kpa(sv, su), du, Dispatch(m), e)

\* run_analysis(df) with the widget values cu, su, du, sv, m and the
\* collaborators behaving as e says: e.fail names the collaborator step that
\* raises ("" for none), e.sigmaP is <<>> or <<the model's sigmaP in 1/Scale kPa>>.
run_analysis(dframe, cu, su, du, sv, m, e) ==
    IF AstypeRaises(StressColumn(dframe)) THEN Ran(dframe, <<dframe>>, <<>>, <<>>, TRUE)
    ELSE Converted(dframe, SetStress(dframe, series_to_kpa(StressColumn(dframe), cu)),
                   cu, su, du, sv, m, e)

\* The except clause of the main workflow: st.exception(e) after what was emitted.
Caught(r) ==
    [df |-> <<r.df>>, dfk |-> r.dfk, calls |-> r.calls,
     out |-> IF r.raised THEN r.out \o <<Emit("exception", <<>>, <<>>)>> ELSE r.out]

\* The column check with the bound off by one.
TooFewColumnsOffByOne(table) == table.ncols < 2

\* df.shape[1] < 3
TooFewColumns(table) == table.ncols < 3

\* The script body from "if uploaded is not None" on (lines 230-240).
Script(up, cu, su, du, sv, m, e) ==
    IF ~up.present
    THEN [df |-> <<>>, dfk |-> <<>>, calls |-> <<>>,
          out |-> <<Emit("info", <<>>, <<>>)>>]
    ELSE IF ~up.parses
    THEN [df |-> <<>>, dfk |-> <<>>, calls |-> <<>>,
          out |-> <<Emit("exception", <<>>, <<>>)>>]
    ELSE IF TooFewColumns(up.table)
    THEN [df |-> <<up.table>>, dfk |-> <<>>, calls |-> <<>>,
          out |-> <<Emit("error", <<>>, <<>>)>>]
    ELSE Caught(run_analysis(up.table, cu, su, du, sv, m, e))

----------------------------------------------------------------------------
(* Inputs                                                                  *)

\* The unit selectboxes offer the first NumUnits entries of UNITS.
NumUnits == 2

UnitChoices == {UNITS[i] : i \in 1..NumUnits}

MethodChoices == {METHODS[i] : i \in 1..Len(METHODS)}

\* number_input(min_value=0.0, value=75.0)
SigmaVChoices == {0, 75}

Row(stress, k) == <<stress, Num(k), Num(10 - k)>>

Table3(c1, c2) == [ncols |-> 3, rows |-> <<Row(c1, 1), Row(c2, 2)>>]

File(table) == [present |-> TRUE, parses |-> TRUE, table |-> table]

NoTable == [ncols |-> 0, rows |-> <<>>]

NoFile == [present |-> FALSE, parses |-> FALSE, table |-> NoTable]

\* A file pandas.read_csv raises on.
BadFile == [present |-> TRUE, parses |-> FALSE, table |-> NoTable]

PlainFile == File(Table3(Num(10), Num(25)))

\* Uploads whose table gets as far as the collaborators.
GoodFiles ==
    {PlainFile,
     File(Table3(Num(10), NaN)),
     File(Table3(Inf, Num(25))),
     File([ncols |-> 4, rows |-> <<Row(Num(10), 1) \o <<Num(7)>>, Row(Num(25), 2) \o <<Num(8)>>>>])}

\* Uploads that are stopped before: unreadable, too few columns, text in the
\* stress column.
StoppedFiles ==
    {BadFile,
     File([ncols |-> 2, rows |-> <<<<Num(10), Num(1)>>, <<Num(25), Num(2)>>>>]),
     File(Table3(Num(10), Str))}

\* Collaborator behaviour: the step that raises, or none and the model's
\* sigmaP attribute (absent, or 120 kPa).
Envs ==
    {[fail |-> f, sigmaP |-> <<>>] : f \in {"Data", "plot", "model", "getSigmaP", ""}}
    \cup {[fail |-> "", sigmaP |-> <<120 * Scale>>]}

DefaultEnv == [fail |-> "", sigmaP |-> <<>>]

\* The uploads tried, each with the collaborator behaviour it meets: the plain
\* table with every behaviour, the other tables with collaborators that succeed.
Uploads ==
    {<<PlainFile, e>> : e \in Envs}
    \cup {<<f, [fail |-> "", sigmaP |-> <<120 * Scale>>]>> : f \in GoodFiles}
    \cup {<<f, DefaultEnv>> : f \in StoppedFiles}

NoFigure == <<>>

----------------------------------------------------------------------------
(* The page: every widget change reruns the whole script                   *)

\* The page after a script run that left r behind.
Page(r, prev) ==
    /\ df' = r.df
    /\ dfk' = r.dfk
    /\ calls' = r.calls
    /\ out' = r.out
    /\ prev_calls' = prev

\* The script run with the given widget values; prev is the new prev_calls.
Rerun(up, cu, su, du, sv, m, e, prev) ==
    /\ uploaded' = up
    /\ csv_unit' = cu
    /\ sv_unit' = su
    /\ display_unit' = du
    /\ sigmaV_input' = sv
    /\ method_name' = m
    /\ env' = e
    /\ Page(Script(up, cu, su, du, sv, m, e), prev)
    /\ UNCHANGED figVars

WidgetDefaults ==
    /\ uploaded = NoFile
    /\ csv_unit = "kPa"
    /\ sv_unit = "kPa"
    /\ display_unit = "kPa"
    /\ sigmaV_input = 75
    /\ method_name = "Casagrande"
    /\ env = DefaultEnv
    /\ df = <<>>
    /\ dfk = <<>>
    /\ calls = <<>>
    /\ out = <<Emit("info", <<>>, <<>>)>>
    /\ prev_calls = <<>>

FigIdle ==
    /\ fig = NoFigure
    /\ fig0 = NoFigure
    /\ op = <<"", "">>
    /\ passes = 0

\* First script run of a session: no upload, every widget at its default.
Init == WidgetDefaults /\ FigIdle

Upload ==
    \E u \in Uploads :
        Rerun(u[1], csv_unit, sv_unit, display_unit, sigmaV_input, method_name, u[2], <<>>)

ClearUpload ==
    /\ uploaded.present
    /\ Rerun(NoFile, csv_unit, sv_unit, display_unit, sigmaV_input, method_name, DefaultEnv, <<>>)

SetCsvUnit ==
    \E u \in UnitChoices \ {csv_unit} :
        Rerun(uploaded, u, sv_unit, display_unit, sigmaV_input, method_name, env, <<>>)

SetSvUnit ==
    \E u \in UnitChoices \ {sv_unit} :
        Rerun(uploaded, csv_unit, u, display_unit, sigmaV_input, method_name, env, <<>>)

SetDisplayUnit ==
    \E u \in UnitChoices \ {display_unit} :
        Rerun(uploaded, csv_unit, sv_unit, u, sigmaV_input, method_name, env, <<calls>>)

SetSigmaV ==
    \E v \in SigmaVChoices \ {sigmaV_input} :
        Rerun(uploaded, csv_unit, sv_unit, display_unit, v, method_name, env, <<>>)

SetMethod ==
    \E m \in MethodChoices \ {method_name} :
        Rerun(uploaded, csv_unit, sv_unit, display_unit, sigmaV_input, m, env, <<>>)

Next ==
    \/ Upload
    \/ ClearUpload
    \/ SetCsvUnit
    \/ SetSvUnit
    \/ SetDisplayUnit
    \/ SetSigmaV
    \/ SetMethod

Spec == Init /\ [][Next]_vars

----------------------------------------------------------------------------
(* A figure under the legend sanitizer and the display-unit pass            *)

RECURSIVE Concats(_, _)
\* Every text made of at most n of the given tokens.
Concats(tokens, n) ==
    IF n = 0 THEN {<<>>}
    ELSE LET S == Concats(tokens, n - 1)
         IN  S \cup {t \o x : t \in tokens, x \in S}

\* Legend texts as a TeX-minded collaborator writes them.
MaxTexTokens == 4

TexTokens ==
    {TEXTBF, MATHBF, <<"}">>, <<BS, ",">>, <<BS, ";">>, <<BS, ":">>, <<"a">>, <<BS>>}

\* Legend texts quoting stresses.
MaxLegendTokens == 3

LegendTokens ==
    {<<"v", "a", "l", "u", "e", " ", "=", " ">>, <<"2", "0", "0">>, <<"1", "5", "0">>,
     <<"1", "5">>, <<"5">>, <<" ", "[", "k", "P", "a", "]">>, <<" ", "k", "P", "a">>, <<".">>}

\* Most digits a legend text carries.
MaxDigits == 3

NumDigits(t) == Cardinality({i \in 1..Len(t) : IsDigit(t[i])})

LegendTexts == {t \in Concats(LegendTokens, MaxLegendTokens) : NumDigits(t) =< MaxDigits}

\* How often one figure is sanitized.
MaxPasses == 2

Text(t) == [text |-> t, bold |-> FALSE]

Axis(xlabel, legend) ==
    [major  |-> <<"ScalarFormatter", "">>,
     minor  |-> <<"ScalarFormatter", "">>,
     xlabel |-> xlabel,
     lines  |-> <<Num(10 * Scale), Num(25 * Scale)>>,
     legend |-> legend]

Legend(title, entries) == <<[title |-> Text(title), texts |-> entries]>>

StressLabel == <<"s", " ", "[", "k", "P", "a", "]">>

\* Figures whose legend carries TeX markup, in the title or in an entry.
TexFigures ==
    {<<Axis(StressLabel, Legend(<<"D">>, <<Text(t)>>))>> : t \in Concats(TexTokens, MaxTexTokens)}
    \cup {<<Axis(StressLabel, Legend(t, <<Text(<<"a">>), Text(t)>>))>> :
            t \in Concats(TexTokens, 1)}

\* Sanitized figures whose legend quotes stresses, and figures with other
\* labels, without legend, with two axes.
StressFigures ==
    {<<Axis(StressLabel, Legend(<<"D">>, <<Text(t)>>))>> :
        t \in LegendTexts}
    \cup {<<Axis(x, <<>>)>> : x \in {StressLabel, <<"s">>, <<" ">>, <<>>}}
    \cup {<<Axis(<<"s">>, <<>>),
            Axis(<<>>, Legend(<<"k", "P", "a">>, <<Text(<<"5", "k", "P", "a">>), Text(<<"[", "k", "P", "a", "]">>)>>))>>}

\* fix_legend_tex(fig)
FixLegendTex ==
    /\ passes < MaxPasses
    /\ fig0' = fig
    /\ fig' = fix_legend_tex(fig)
    /\ op' = <<"fix_legend_tex", "">>
    /\ passes' = passes + 1
    /\ UNCHANGED workflowVars

\* apply_display_units(fig, unit), once per figure
ApplyDisplayUnits ==
    \E u \in {UNITS[i] : i \in 1..Len(UNITS)} :
        /\ op[1] # "apply_display_units"
        /\ fig0' = fig
        /\ fig' = apply_display_units(fig, u)
        /\ op' = <<"apply_display_units", u>>
        /\ passes' = passes
        /\ UNCHANGED workflowVars

FigStart(figures) ==
    /\ fig \in figures
    /\ fig0 = fig
    /\ op = <<"", "">>
    /\ passes = 0

InitTex == WidgetDefaults /\ FigStart(TexFigures)

NextTex == FixLegendTex

\* A collaborator's figure under repeated sanitizer passes.
SpecTex == InitTex /\ [][NextTex]_vars

InitDisplay == WidgetDefaults /\ FigStart(StressFigures)

NextDisplay == ApplyDisplayUnits

\* A sanitized figure redisplayed in a unit.
SpecDisplay == InitDisplay /\ [][NextDisplay]_vars

----------------------------------------------------------------------------
(* Properties of the main workflow (Spec)                                  *)

ExceptionShown == out # <<>> /\ out[Len(out)].kind = "exception"

Kinds == {out[i].kind : i \in 1..Len(out)}

CallNames == [i \in 1..Len(calls) |-> calls[i].fn]

ModelClasses == {"Casagrande", "PachecoSilva", "Boone", "Bilog", "WangAndFrost", "BeckerEtAl"}

\* The upload was parsed into a table.
Parsed == uploaded.present /\ uploaded.parses

\* C1: the display unit has no effect on computation.  A run that differs
\* from the run before only in the display unit makes exactly the same
\* collaborator calls, in number, order and arguments (the kPa table and kPa
\* in-situ stress given to Data, the model class, the getSigmaP parameters);
\* and every figure emitted still plots the kPa series that Data was given.
DisplayUnitIndependent ==
    /\ prev_calls # <<>> => calls = prev_calls[1]
    /\ \A i \in 1..Len(out) : \A a \in 1..Len(out[i].figure) :
          out[i].figure[a].lines = StressColumn(calls[1].data[1])

DisplayUnitChanged ==
    /\ prev_calls # <<>>
    /\ Len(calls) = 4
    /\ display_unit # "kPa"
    /\ sv_unit = "kPa"
    /\ "download_button" \in Kinds

\* C2 as stated: whenever the request ends in an exception, none of the curve
\* figure, result figure, metric and download button has been emitted.
AllOrNothing ==
    ExceptionShown => \A i \in 1..Len(out) - 1 : out[i].kind \notin {"pyplot", "subheader", "metric", "download_button"}

\* C2, amended: when the request ends in an exception, no result figure,
\* metric or download button has been emitted; nothing but the error is shown
\* when parsing, conversion, Data or plot raised, and the curve figure, already
\* emitted, stays before the error when the model constructor or getSigmaP raised.
FailureShowsAtMostCurve ==
    ExceptionShown =>
        /\ Kinds \subseteq {"pyplot", "exception"}
        /\ Len(calls) =< 2 => out = <<Emit("exception", <<>>, <<>>)>>
        /\ Len(calls) >= 3 =>
              out = <<Emit("pyplot", CurveFigure(calls[1].data[1], display_unit), <<>>),
                      Emit("exception", <<>>, <<>>)>>

CurveThenError ==
    /\ ExceptionShown
    /\ Len(out) = 2
    /\ out[1].kind = "pyplot"
    /\ CallNames[Len(calls)] = "getSigmaP"

\* C3: a parsed table with fewer than 3 columns is reported as a validation
\* error before anything else happens: run_analysis is not entered (no working
\* copy, no conversion), no collaborator is called, no figure is rendered.
FewColumnsRejected ==
    (Parsed /\ uploaded.table.ncols < 3) =>
        /\ dfk = <<>>
        /\ calls = <<>>
        /\ out = <<Emit("error", <<>>, <<>>)>>
        /\ df = <<uploaded.table>>

TwoColumnsUploaded ==
    /\ Parsed
    /\ uploaded.table.ncols = 2
    /\ Len(uploaded.table.rows) = 2
    /\ out = <<Emit("error", <<>>, <<>>)>>

NonFiniteStress ==
    /\ Parsed
    /\ uploaded.table.ncols >= 3
    /\ \E i \in 1..Len(uploaded.table.rows) : uploaded.table.rows[i][1].kind \in {"nan", "inf"}

\* C4: a non-finite stress value makes normalization fail with an error, and
\* Data is never constructed with that series.
NonFiniteRejected ==
    NonFiniteStress =>
        /\ ExceptionShown
        /\ \A k \in 1..Len(calls) : calls[k].fn # "Data"

\* C9: the table given to Data has the rows of the upload in their order, its
\* stress column is raw * TO_KPA[csv_unit], its strain and void-ratio columns
\* are the uploaded values, and the uploaded table itself is unchanged.
StressOnlyConverted ==
    \A k \in 1..Len(calls) : calls[k].fn = "Data" =>
        LET t == calls[k].data[1]
            u == uploaded.table
        IN  /\ Len(t.rows) = Len(u.rows)
            /\ \A i \in 1..Len(u.rows) :
                  /\ Len(t.rows[i]) = 3
                  /\ u.rows[i][1].kind = "float" =>
                        t.rows[i][1] = Num(u.rows[i][1].v * TO_KPA[csv_unit])
                  /\ u.rows[i][1].kind # "float" => t.rows[i][1] = u.rows[i][1]
                  /\ t.rows[i][2] = u.rows[i][2]
                  /\ t.rows[i][3] = u.rows[i][3]
            /\ df = <<u>>

ConvertedFromMPa ==
    /\ Len(calls) >= 1
    /\ csv_unit = "MPa"
    /\ uploaded.table.ncols = 4
    /\ calls[1].data[1].rows[2][1] = Num(25 * 1000 * Scale)

\* The documented mapping of method identifiers: <<model class, getSigmaP keywords>>.
Mapping ==
    CASE method_name = "Casagrande"              -> <<"Casagrande", "loglog=True">>
      [] method_name = "Pacheco Silva"           -> <<"PachecoSilva", "">>
      [] method_name = "Boone"                   -> <<"Boone", "">>
      [] method_name = "Butterfield (bilog)"     -> <<"Bilog", "opt=1">>
      [] method_name = "Oikawa (bilog)"          -> <<"Bilog", "opt=2">>
      [] method_name = "Onitsuka et al. (bilog)" -> <<"Bilog", "opt=3">>
      [] method_name = "Wang & Frost (energy)"   -> <<"WangAndFrost", "">>
      [] method_name = "Becker et al. (energy)"  -> <<"BeckerEtAl", "">>

\* C10: a request whose table reaches the method constructs exactly one model,
\* of the class mapped to the method identifier, on the request's Data object,
\* and calls getSigmaP exactly once with the mapped keywords; every request
\* that shows a result has made these calls itself.
DispatchAsMapped ==
    /\ Cardinality({k \in 1..Len(calls) : calls[k].fn \in ModelClasses}) =< 1
    /\ Cardinality({k \in 1..Len(calls) : calls[k].fn = "getSigmaP"}) =< 1
    /\ Len(calls) >= 3 =>
          /\ calls[3].fn = Mapping[1]
          /\ calls[3].data = calls[1].data
          /\ calls[3].sigmaV = calls[1].sigmaV
    /\ Len(calls) >= 4 => calls[4].fn = "getSigmaP" /\ calls[4].kw = Mapping[2]
    /\ "download_button" \in Kinds =>
          CallNames = <<"Data", "plot", Mapping[1], "getSigmaP">>

OnitsukaDispatched ==
    /\ method_name = "Onitsuka et al. (bilog)"
    /\ "download_button" \in Kinds
    /\ calls[4].kw = "opt=3"

----------------------------------------------------------------------------
(* Properties of the display pass (SpecDisplay)                            *)

\* The figure has one axis whose legend has one entry.
OneEntry(f) == Len(f) = 1 /\ f[1].legend # <<>> /\ Len(f[1].legend[1].texts) = 1

Entry(f) == f[1].legend[1].texts[1].text

Redisplayed(u) == op = <<"apply_display_units", u>>

\* C5: apply_display_units(figure, "kPa") leaves every tick formatter, axis
\* label and legend string of the figure as it was.
DisplayNoOp == Redisplayed("kPa") => fig = fig0

KPaRedisplayed ==
    /\ Redisplayed("kPa")
    /\ OneEntry(fig0)
    /\ Contains(Entry(fig0), KPA)
    /\ Contains(fig0[1].xlabel, KPA)

BracketedEntry ==
    <<"v", "a", "l", "u", "e", " ", "=", " ", "2", "0", "0", " ", "[", "k", "P", "a", "]">>

\* C6: the entry "value = 200 [kPa]" redisplayed in tsf becomes "value = 2.09 [tsf]".
BracketedRewrite ==
    (Redisplayed("tsf") /\ OneEntry(fig0) /\ Entry(fig0) = BracketedEntry) =>
        Entry(fig) = <<"v", "a", "l", "u", "e", " ", "=", " ", "2", ".", "0", "9", " ", "[", "t", "s", "f", "]">>

\* A legend entry "<v> kPa"
Quoted(v) == IntText(v) \o <<" ", "k", "P", "a">>

\* The same entry shown in unit u with the number written as t
Shown(t, u) == t \o <<" ">> \o UnitText(u)

\* C7 as stated: at kN/m^2 (factor 1), 150 renders as "150", 15 as "15.0" and
\* 5 as "5.00".
FormattingTiersPadded ==
    (Redisplayed("kN/m^2") /\ OneEntry(fig0)) =>
        /\ Entry(fig0) = Quoted(150) => Entry(fig) = Shown(<<"1", "5", "0">>, "kN/m^2")
        /\ Entry(fig0) = Quoted(15) => Entry(fig) = Shown(<<"1", "5", ".", "0">>, "kN/m^2")
        /\ Entry(fig0) = Quoted(5) => Entry(fig) = Shown(<<"5", ".", "0", "0">>, "kN/m^2")

\* The number part of a redisplayed entry: what precedes " <unit>".
NumberPart(t, u) == SubSeq(t, 1, Len(t) - Len(UnitText(u)) - 1)

\* Position of the decimal point, 0 when there is none.
PointAt(t) == IF \E k \in 1..Len(t) : t[k] = "." THEN CHOOSE k \in 1..Len(t) : t[k] = "." ELSE 0

AllDigits(t) == t # <<>> /\ \A k \in 1..Len(t) : IsDigit(t[k])

\* Digits from the first non-zero digit on, up to an exponent mark.
SignificantDigits(t) ==
    LET stop  == IF \E k \in 1..Len(t) : t[k] = "e" THEN CHOOSE k \in 1..Len(t) : t[k] = "e" ELSE Len(t) + 1
        first == IF \E k \in 1..(stop - 1) : IsDigit(t[k]) /\ t[k] # "0"
                 THEN CHOOSE k \in 1..(stop - 1) :
                        /\ IsDigit(t[k]) /\ t[k] # "0"
                        /\ \A j \in 1..(k - 1) : ~(IsDigit(t[j]) /\ t[j] # "0")
                 ELSE stop
    IN  Cardinality({k \in first..(stop - 1) : IsDigit(t[k])})

\* |a/b - n/d| =< 1/(2c)
Within(a, b, n, d, c) ==
    LET x == a * d - n * b
    IN  2 * c * (IF x < 0 THEN 0 - x ELSE x) =< b * d

\* C7, amended: a converted value y >= 100 is rendered with 0 decimals,
\* 10 =< y < 100 with exactly 1 decimal, each rounded to nearest; y < 10 with
\* at most 3 significant digits and no trailing zeros (no point when no decimals
\* remain).  At kN/m^2, 150 renders as "150", 15 as "15.0" and 5 as "5".
FormattingTiers ==
    \A v \in {5, 15, 150, 200} : \A i \in 2..Len(UNITS) :
        (Redisplayed(UNITS[i]) /\ OneEntry(fig0) /\ Entry(fig0) = Quoted(v)) =>
            LET u == UNITS[i]
                n == v * Scale
                d == TO_KPA[u]
                t == NumberPart(Entry(fig), u)
                p == PointAt(t)
            IN  /\ Entry(fig) = Shown(t, u)
                /\ n >= 100 * d =>
                      /\ AllDigits(t)
                      /\ Within(DigitsValue(t), 1, n, d, 1)
                /\ (n >= 10 * d /\ n < 100 * d) =>
                      /\ p = Len(t) - 1
                      /\ AllDigits(SubSeq(t, 1, p - 1) \o <<t[Len(t)]>>)
                      /\ Within(DigitsValue(SubSeq(t, 1, p - 1) \o <<t[Len(t)]>>), 10, n, d, 10)
                /\ n < 10 * d =>
                      /\ SignificantDigits(t) =< 3
                      /\ p # 0 => t[Len(t)] \notin {"0", "."}
                /\ (u = "kN/m^2" /\ v = 150) => t = <<"1", "5", "0">>
                /\ (u = "kN/m^2" /\ v = 15) => t = <<"1", "5", ".", "0">>
                /\ (u = "kN/m^2" /\ v = 5) => t = <<"5">>

FiveShownBare ==
    /\ Redisplayed("kN/m^2")
    /\ OneEntry(fig0)
    /\ Entry(fig0) = Quoted(5)
    /\ Entry(fig) = Shown(<<"5">>, "kN/m^2")

----------------------------------------------------------------------------
(* Properties of the sanitizer (SpecTex)                                   *)

\* C8: a second fix_legend_tex pass over a figure changes no text and no font
\* weight, i.e. _strip_tex_macros is idempotent on every legend text.
SanitizerIdempotent == passes >= 2 => fig = fig0

====
